---- MODULE Spec2Model ----
(***************************************************************************)
(* A model of the PPU of rustnes: the register file and its cpu-side       *)
(* protocol (src/src/ppu.rs, Ppu::read8 / Ppu::write8), the vblank         *)
(* operations, and the PPU-bus routing (src/src/ppu_memory_layout.rs).     *)
(* Bytes are naturals below 256 and addresses naturals below 65536; every  *)
(* arithmetic step keeps the width the source gives it.                    *)
(***************************************************************************)
EXTENDS Integers, Sequences, FiniteSets, TLC

VARIABLES
    ppu,      \* the Ppu object (struct Ppu, ppu.rs:135-144)
    memory,   \* the PPU bus behind PpuMemoryLayout: cartridge store and palette
    hist,     \* the most recent operations with their inputs and results
    oam_log,  \* the oam address at which the current run of OAM_DATA writes
              \* started, and the bytes the run has written
    steps,    \* the number of operations performed so far
    frame,    \* the Frame of the last render: the set_pixel calls it received
    bus_log   \* the bus reads of the last render

vars == <<ppu, memory, hist, oam_log, steps, frame, bus_log>>

----------------------------------------------------------------------------
(* Bounds of the model *)

\* operations in one behaviour of Spec
MaxOps == 3
\* operations in one behaviour of SpecData
MaxDataOps == 6
\* operations in one behaviour of SpecOam
MaxOamOps == 258
\* operations remembered in hist
HistLen == 9
\* operations in one behaviour of SpecBus
MaxBusOps == 2
\* operations in one behaviour of SpecRender
MaxRenderOps == 3
\* operations of a behaviour of SpecHit, the render included
MaxHitOps == 3

----------------------------------------------------------------------------
(* Fixed-width arithmetic *)

RECURSIVE BitAnd(_, _)
BitAnd(a, b) ==
    IF a = 0 \/ b = 0 THEN 0
    ELSE (IF a % 2 = 1 /\ b % 2 = 1 THEN 1 ELSE 0) + 2 * BitAnd(a \div 2, b \div 2)

RECURSIVE BitOr(_, _)
BitOr(a, b) ==
    IF a = 0 THEN b
    ELSE IF b = 0 THEN a
    ELSE (IF a % 2 = 1 \/ b % 2 = 1 THEN 1 ELSE 0) + 2 * BitOr(a \div 2, b \div 2)

\* x & !m
BitClear(x, m) == x - BitAnd(x, m)

\* u8::wrapping_add
WrappingAdd8(a, b) == (a + b) % 256

\* u16::wrapping_add
WrappingAdd16(a, b) == (a + b) % 65536

----------------------------------------------------------------------------
(* Constants of ppu.rs *)

CONTROLLER == 0
MASK == 1
STATUS == 2
OAM_ADDRESS == 3
OAM_DATA == 4
SCROLL == 5
ADDRESS == 6
DATA == 7

CONTROLLER_VRAM_ADDRESS_INCREMENT == 4
CONTROLLER_VBLANK_NMI == 128

STATUS_LAST_WRITE_MASK == 31
STATUS_SPRITE_OVERFLOW == 32
STATUS_SPRITE_0_HIT == 64
STATUS_VBLANK == 128

OAM_SIZE == 256

(* Constants of the renderer (ppu.rs) *)

CONTROLLER_NAMETABLE_X == 1
CONTROLLER_NAMETABLE_Y == 2
CONTROLLER_SPRITE_PATTERN_TABLE_8X8 == 8
CONTROLLER_BACKGROUND_PATTERN_TABLE == 16

DISPLAY_WIDTH == 256
DISPLAY_HEIGHT == 240
WIDTH_TILES == 32
HEIGHT_TILES == 30
TILE_WIDTH == 8
TILE_HEIGHT == 8
PATTERN_TABLE_ENTRY_BYTES == 16
ATTRIBUTE_TABLE_OFFSET == 960

PALETTE_STRIDE == 4
UNIVERSAL_BACKGROUND_COLOUR == 16128
BACKGROUND_PALETTE_BASE == 16128
SPRITE_PALETTE_BASE == 16144

SPRITE_STRIDE == 4
NUM_SPRITES == 64

SPRITE_ATTRIBUTE_PALETTE_MASK == 3
SPRITE_ATTRIBUTE_PRIORITY == 32
SPRITE_ATTRIBUTE_HORIZONTAL_FLIP == 64
SPRITE_ATTRIBUTE_VERTICAL_FLIP == 128

TILE_SIZE_BITS == 3
SUBTILE_OFFSET_MASK == 7

(* Constants of ppu_memory_layout.rs *)

CARTRIDGE_START == 0
CARTRIDGE_END == 12287
NAME_TABLE_MIRROR_START == 12288
NAME_TABLE_MIRROR_END == 16127
PALETTE_START == 16128
PALETTE_END == 16159
PALETTE_MIRROR_START == 16160
PALETTE_MIRROR_END == 16383
\* cartridge::NAME_TABLE_START
NAME_TABLE_START == 8192

NAME_TABLE_MIRROR_OFFSET == NAME_TABLE_MIRROR_START - NAME_TABLE_START
PALETTE_SIZE == PALETTE_END - PALETTE_START + 1

----------------------------------------------------------------------------
(* Results: Ok(value) or an Error variant carrying the address *)

Ok(v) == [kind |-> "Ok", value |-> v]
Err(kind, a) == [kind |-> kind, value |-> a]
IsOk(r) == r.kind = "Ok"

----------------------------------------------------------------------------
(* The collaborators behind the bus.  The cartridge (with the vram it      *)
(* mediates) and the palette are byte stores: a read returns the byte last *)
(* written at that location, or the initial content.                       *)

\* the CHR content of the cartridge: a known pattern, different from
\* address to address
ChrPattern(a) == (a + (a \div 256) + 1) % 256

\* initial content at a cartridge address: CHR below 0x2000, zeroed vram above
CartridgeInitial(a) == IF a < NAME_TABLE_START THEN ChrPattern(a) ELSE 0

cartridge_ppu_read8(cartridge, a) ==
    Ok(IF a \in DOMAIN cartridge THEN cartridge[a] ELSE CartridgeInitial(a))

cartridge_ppu_write8(cartridge, a, data) ==
    [x \in (DOMAIN cartridge) \cup {a} |-> IF x = a THEN data ELSE cartridge[x]]

palette_ppu_read8(palette, a) == Ok(palette[a])

palette_ppu_write8(palette, a, data) == [palette EXCEPT ![a] = data]

----------------------------------------------------------------------------
(* PpuMemoryLayout: the routing of a 16-bit PPU address *)

ppu_read8(mem, a) ==
    IF a >= CARTRIDGE_START /\ a <= CARTRIDGE_END
        THEN cartridge_ppu_read8(mem.cartridge, a)
    ELSE IF a >= NAME_TABLE_MIRROR_START /\ a <= NAME_TABLE_MIRROR_END
        THEN cartridge_ppu_read8(mem.cartridge, a - NAME_TABLE_MIRROR_OFFSET)
    ELSE IF a >= PALETTE_START /\ a <= PALETTE_END
        THEN palette_ppu_read8(mem.palette, a - PALETTE_START)
    ELSE IF a >= PALETTE_MIRROR_START /\ a <= PALETTE_MIRROR_END
        THEN palette_ppu_read8(mem.palette, (a - PALETTE_MIRROR_START) % PALETTE_SIZE)
    ELSE Err("BusErrorRead", a)

\* ppu_write8 handing a nametable-mirror address to the cartridge as it is
ppu_write8_unmirrored(mem, a, data) ==
    IF a >= CARTRIDGE_START /\ a <= NAME_TABLE_MIRROR_END
        THEN [memory |-> [mem EXCEPT !.cartridge = cartridge_ppu_write8(@, a, data)],
              result |-> Ok(0)]
    ELSE IF a >= PALETTE_START /\ a <= PALETTE_END
        THEN [memory |-> [mem EXCEPT !.palette =
                              palette_ppu_write8(@, a - PALETTE_START, data)],
              result |-> Ok(0)]
    ELSE IF a >= PALETTE_MIRROR_START /\ a <= PALETTE_MIRROR_END
        THEN [memory |-> [mem EXCEPT !.palette =
                              palette_ppu_write8(@, (a - PALETTE_MIRROR_START) % PALETTE_SIZE, data)],
              result |-> Ok(0)]
    ELSE [memory |-> mem, result |-> Err("BusErrorWrite", a)]

ppu_write8(mem, a, data) ==
    IF a >= CARTRIDGE_START /\ a <= CARTRIDGE_END
        THEN [memory |-> [mem EXCEPT !.cartridge = cartridge_ppu_write8(@, a, data)],
              result |-> Ok(0)]
    ELSE IF a >= NAME_TABLE_MIRROR_START /\ a <= NAME_TABLE_MIRROR_END
        THEN [memory |-> [mem EXCEPT !.cartridge =
                              cartridge_ppu_write8(@, a - NAME_TABLE_MIRROR_OFFSET, data)],
              result |-> Ok(0)]
    ELSE IF a >= PALETTE_START /\ a <= PALETTE_END
        THEN [memory |-> [mem EXCEPT !.palette =
                              palette_ppu_write8(@, a - PALETTE_START, data)],
              result |-> Ok(0)]
    ELSE IF a >= PALETTE_MIRROR_START /\ a <= PALETTE_MIRROR_END
        THEN [memory |-> [mem EXCEPT !.palette =
                              palette_ppu_write8(@, (a - PALETTE_MIRROR_START) % PALETTE_SIZE, data)],
              result |-> Ok(0)]
    ELSE [memory |-> mem, result |-> Err("BusErrorWrite", a)]

\* the addresses the router maps
Mapped(a) == a >= CARTRIDGE_START /\ a <= PALETTE_MIRROR_END

----------------------------------------------------------------------------
(* Ppu *)

PpuRegisterFile_new ==
    [controller |-> 0, mask |-> 0, status |-> 0, oam_address |-> 0,
     scroll |-> 0, address |-> 0]

Ppu_new ==
    [registers |-> PpuRegisterFile_new,
     scroll_axis |-> "X",
     scroll_x |-> 0,
     scroll_y |-> 0,
     address_phase |-> "HIGH",
     address |-> 0,
     oam |-> [i \in 0..(OAM_SIZE - 1) |-> 0],
     data_latch |-> 0]

\* what the caller of an operation gets back, with the objects it changed;
\* bus is the address presented to the PPU bus, -1 when there was none
Outcome(self, mem, result, bus) ==
    [ppu |-> self, memory |-> mem, result |-> result, bus |-> bus]

\* vblank_start raising the NMI whatever CONTROLLER says
vblank_start_always_nmi(self, interrupts) ==
    [ppu |-> [self EXCEPT !.registers.status = BitOr(@, STATUS_VBLANK)],
     interrupts |-> [interrupts EXCEPT !.nmi = TRUE]]

vblank_start(self, interrupts) ==
    [ppu |-> [self EXCEPT !.registers.status = BitOr(@, STATUS_VBLANK)],
     interrupts |-> IF BitAnd(self.registers.controller, CONTROLLER_VBLANK_NMI) # 0
                        THEN [interrupts EXCEPT !.nmi = TRUE]
                        ELSE interrupts]

\* vblank_end with the mask not inverted: status &= STATUS_VBLANK
vblank_end_keeps_only_vblank(self, interrupts) ==
    [ppu |-> [self EXCEPT !.registers.status = BitAnd(@, STATUS_VBLANK)],
     interrupts |-> interrupts]

vblank_end(self, interrupts) ==
    [ppu |-> [self EXCEPT !.registers.status = BitClear(@, STATUS_VBLANK)],
     interrupts |-> interrupts]

\* render_end clearing VBLANK as well
render_end_clears_vblank(self) ==
    [self EXCEPT !.registers.status =
                     BitClear(BitClear(@, STATUS_SPRITE_0_HIT), STATUS_VBLANK)]

render_end(self) ==
    [self EXCEPT !.registers.status = BitClear(@, STATUS_SPRITE_0_HIT)]

set_oam_address(self, a) == [self EXCEPT !.registers.oam_address = a]

\* oam_data_write advancing oam_address before it stores
oam_data_write_pre_increment(self, data) ==
    [self EXCEPT !.oam[WrappingAdd8(self.registers.oam_address, 1)] = data,
                 !.registers.oam_address = WrappingAdd8(@, 1)]

oam_data_write(self, data) ==
    [self EXCEPT !.oam[self.registers.oam_address] = data,
                 !.registers.oam_address = WrappingAdd8(@, 1)]

\* increment_address ignoring CONTROLLER bit 2
increment_address_by_one(self) ==
    [self EXCEPT !.address = WrappingAdd16(@, 1)]

increment_address(self) ==
    IF BitAnd(self.registers.controller, CONTROLLER_VRAM_ADDRESS_INCREMENT) # 0
        THEN [self EXCEPT !.address = WrappingAdd16(@, 32)]
        ELSE [self EXCEPT !.address = WrappingAdd16(@, 1)]

\* the STATUS arm returning STATUS as it is after VBLANK was cleared
status_read_after_clear(self, mem) ==
    Outcome([self EXCEPT !.registers.status = BitClear(@, STATUS_VBLANK)],
            mem, Ok(BitClear(self.registers.status, STATUS_VBLANK)), -1)

\* read8, the STATUS arm
status_read(self, mem) ==
    Outcome([self EXCEPT !.registers.status = BitClear(@, STATUS_VBLANK)],
            mem, Ok(self.registers.status), -1)

\* read8, the OAM_DATA arm
oam_data_read(self, mem) ==
    Outcome(self, mem, Ok(self.oam[self.registers.oam_address]), -1)

\* the DATA arm of read8 emptying the latch when the bus read fails
data_read_empties_latch(self, mem) ==
    LET data == self.data_latch
        r == ppu_read8(mem, self.address)
    IN  IF IsOk(r)
            THEN Outcome(increment_address([self EXCEPT !.data_latch = r.value]),
                         mem, Ok(data), self.address)
            ELSE Outcome([self EXCEPT !.data_latch = 0], mem, r, self.address)

\* read8, the DATA arm: the latch is returned, then refilled from the bus
data_read(self, mem) ==
    LET data == self.data_latch
        r == ppu_read8(mem, self.address)
    IN  IF IsOk(r)
            THEN Outcome(increment_address([self EXCEPT !.data_latch = r.value]),
                         mem, Ok(data), self.address)
            ELSE Outcome(self, mem, r, self.address)

\* read8 with a SCROLL arm that returns the register instead of refusing
read8_scroll_readable(self, a, mem) ==
    CASE a = CONTROLLER -> Outcome(self, mem, Err("IllegalRead", a), -1)
      [] a = MASK -> Outcome(self, mem, Err("IllegalRead", a), -1)
      [] a = STATUS -> status_read(self, mem)
      [] a = OAM_ADDRESS -> Outcome(self, mem, Err("IllegalRead", a), -1)
      [] a = OAM_DATA -> oam_data_read(self, mem)
      [] a = SCROLL -> Outcome(self, mem, Ok(self.registers.scroll), -1)
      [] a = ADDRESS -> Outcome(self, mem, Err("IllegalRead", a), -1)
      [] a = DATA -> data_read(self, mem)
      [] OTHER -> Outcome(self, mem, Err("UnimplementedRead", a), -1)

read8(self, a, mem) ==
    CASE a = CONTROLLER -> Outcome(self, mem, Err("IllegalRead", a), -1)
      [] a = MASK -> Outcome(self, mem, Err("IllegalRead", a), -1)
      [] a = STATUS -> status_read(self, mem)
      [] a = OAM_ADDRESS -> Outcome(self, mem, Err("IllegalRead", a), -1)
      [] a = OAM_DATA -> oam_data_read(self, mem)
      [] a = SCROLL -> Outcome(self, mem, Err("IllegalRead", a), -1)
      [] a = ADDRESS -> Outcome(self, mem, Err("IllegalRead", a), -1)
      [] a = DATA -> data_read(self, mem)
      [] OTHER -> Outcome(self, mem, Err("UnimplementedRead", a), -1)

\* write8, the merge of the written byte into STATUS that precedes the match
last_write(self, data) ==
    [self EXCEPT !.registers.status = BitOr(@, BitAnd(data, STATUS_LAST_WRITE_MASK))]

\* the SCROLL arm committing the byte just written as scroll_x too
scroll_write_commits_data(self, data) ==
    LET s == IF self.scroll_axis = "X"
                 THEN [self EXCEPT !.scroll_axis = "Y"]
                 ELSE [self EXCEPT !.scroll_axis = "X",
                                   !.scroll_x = data,
                                   !.scroll_y = data]
    IN  [s EXCEPT !.registers.scroll = data]

\* write8, the SCROLL arm
scroll_write(self, data) ==
    LET s == IF self.scroll_axis = "X"
                 THEN [self EXCEPT !.scroll_axis = "Y"]
                 ELSE [self EXCEPT !.scroll_axis = "X",
                                   !.scroll_x = self.registers.scroll,
                                   !.scroll_y = data]
    IN  [s EXCEPT !.registers.scroll = data]

\* the ADDRESS arm putting the high byte into vram_address at once
address_write_commits_high(self, data) ==
    LET s == IF self.address_phase = "HIGH"
                 THEN [self EXCEPT !.address_phase = "LOW",
                                   !.address = data * 256 + (self.address % 256)]
                 ELSE [self EXCEPT !.address_phase = "HIGH",
                                   !.address = BitOr(self.registers.address * 256, data)]
    IN  [s EXCEPT !.registers.address = data]

\* write8, the ADDRESS arm
address_write(self, data) ==
    LET s == IF self.address_phase = "HIGH"
                 THEN [self EXCEPT !.address_phase = "LOW"]
                 ELSE [self EXCEPT !.address_phase = "HIGH",
                                   !.address = BitOr(self.registers.address * 256, data)]
    IN  [s EXCEPT !.registers.address = data]

\* write8, the DATA arm
data_write(self, data, mem) ==
    LET w == ppu_write8(mem, self.address, data)
    IN  IF IsOk(w.result)
            THEN Outcome(increment_address(self), w.memory, Ok(0), self.address)
            ELSE Outcome(self, mem, w.result, self.address)

write8(self, a, data, mem) ==
    LET s == last_write(self, data)
    IN  CASE a = CONTROLLER -> Outcome([s EXCEPT !.registers.controller = data], mem, Ok(0), -1)
          [] a = MASK -> Outcome([s EXCEPT !.registers.mask = data], mem, Ok(0), -1)
          [] a = STATUS -> Outcome(s, mem, Err("IllegalWrite", a), -1)
          [] a = OAM_ADDRESS -> Outcome(set_oam_address(s, data), mem, Ok(0), -1)
          [] a = OAM_DATA -> Outcome(oam_data_write(s, data), mem, Ok(0), -1)
          [] a = SCROLL -> Outcome(scroll_write(s, data), mem, Ok(0), -1)
          [] a = ADDRESS -> Outcome(address_write(s, data), mem, Ok(0), -1)
          [] a = DATA -> data_write(s, data, mem)
          [] OTHER -> Outcome(s, mem, Err("UnimplementedWrite", a), -1)

----------------------------------------------------------------------------
(* Ppu::render.  The Frame it draws on is recorded as the set_pixel calls  *)
(* it receives, each with the place it has in the order of the calls: the  *)
(* number of iterations of the innermost loops of render that come before  *)
(* it.  A loop nest that calls set_pixel(j, i, colour) for every i in      *)
(* y .. y + height - 1 and, within it, every j in x .. x + width - 1 is    *)
(* recorded as one block, which takes width * height places.               *)
(* The bus reads of a render are recorded per tile: the address of the     *)
(* nametable byte, of the attribute byte, of the first of the sixteen      *)
(* pattern bytes (pt_address + i and pt_address + 8 + i are read for every *)
(* row i), and of the palette entries.                                     *)

\* the set_pixel calls of a block; one call when width = height = 1
SetPixel(at, layer, index, x, y, width, height, colour) ==
    [at |-> at, layer |-> layer, index |-> index, x |-> x, y |-> y,
     width |-> width, height |-> height, colour |-> colour]

\* a Frame that has received no call
Frame_new == {}

\* the bus reads of one background tile
TileReads(nt_address, at_byte_address, pt_address, palette) ==
    [nt_address |-> nt_address, at_byte_address |-> at_byte_address,
     pt_address |-> pt_address, palette |-> palette]

\* the bus reads of one sprite (none when it is not visible)
SpriteReads(visible, pt_address, palette) ==
    [visible |-> visible, pt_address |-> pt_address, palette |-> palette]

\* the record of a render that has not happened
BusLog_new == [universal |-> <<>>, background |-> <<>>, sprites |-> <<>>]

\* the places the calls of each pass can take
UniversalPlaces == DISPLAY_WIDTH * DISPLAY_HEIGHT
TilePlaces == TILE_WIDTH * TILE_HEIGHT
BackgroundPlaces == (HEIGHT_TILES + 1) * (WIDTH_TILES + 1) * TilePlaces
SpritePlaces == NUM_SPRITES * TilePlaces

Sprite_new(x, y, attributes, index) ==
    [x |-> x,
     y |-> y,
     index |-> index,
     palette |-> BitAnd(attributes, SPRITE_ATTRIBUTE_PALETTE_MASK),
     priority |-> BitAnd(attributes, SPRITE_ATTRIBUTE_PRIORITY) # 0,
     horizontal_flip |-> BitAnd(attributes, SPRITE_ATTRIBUTE_HORIZONTAL_FLIP) # 0,
     vertical_flip |-> BitAnd(attributes, SPRITE_ATTRIBUTE_VERTICAL_FLIP) # 0]

is_visible(sprite) == sprite.y < 239

background_base_patterntable_address(self) ==
    IF BitAnd(self.registers.controller, CONTROLLER_BACKGROUND_PATTERN_TABLE) = 0
        THEN 0 ELSE 4096

background_top_left_coord(self) ==
    [x |-> self.scroll_x +
               (IF BitAnd(self.registers.controller, CONTROLLER_NAMETABLE_X) # 0
                    THEN DISPLAY_WIDTH ELSE 0),
     y |-> self.scroll_y +
               (IF BitAnd(self.registers.controller, CONTROLLER_NAMETABLE_Y) # 0
                    THEN DISPLAY_HEIGHT ELSE 0)]

\* sprite_base_patterntable_address with the second table at 0x2000
sprite_base_patterntable_address_high(self) ==
    IF BitAnd(self.registers.controller, CONTROLLER_SPRITE_PATTERN_TABLE_8X8) = 0
        THEN 0
        ELSE 8192

sprite_base_patterntable_address(self) ==
    IF BitAnd(self.registers.controller, CONTROLLER_SPRITE_PATTERN_TABLE_8X8) = 0
        THEN 0 ELSE 4096

\* (((y & 1) << 1) | (x & 1)) of the metatile coordinates
metatile_id(tile_x, tile_y) ==
    LET x == tile_x \div 2
        y == tile_y \div 2
    IN  (y % 2) * 2 + (x % 2)

\* the results of the sixteen pattern reads of a tile, in the order of the
\* reads: row_0 and row_1 of row 0, then of row 1, ...
pattern_reads(mem, pt_address) ==
    [n \in 1..(2 * TILE_HEIGHT) |->
        ppu_read8(mem, pt_address + ((n - 1) % 2) * TILE_HEIGHT + ((n - 1) \div 2))]

\* the palette index of column j of row i: bit j of row_0, and bit j of
\* row_1 one place higher
palette_index(pattern, i, j) ==
    ((pattern[2 * i + 1].value \div (2 ^ j)) % 2)
        + 2 * ((pattern[2 * i + 2].value \div (2 ^ j)) % 2)

\* the rows i and columns j of a tile whose palette index is not zero (none
\* in a row whose two bytes are zero)
Opaque(pattern) ==
    UNION {{<<i, j>> : j \in {c \in 0..(TILE_WIDTH - 1) : palette_index(pattern, i, c) # 0}} :
              i \in {r \in 0..(TILE_HEIGHT - 1) :
                         pattern[2 * r + 1].value # 0 \/ pattern[2 * r + 2].value # 0}}

\* the place in a sequence of results of the first error; past the end when
\* there is none
FirstBad(results) ==
    LET bad == {n \in 1..Len(results) : ~IsOk(results[n])}
    IN  IF bad = {} THEN Len(results) + 1
        ELSE CHOOSE n \in bad : \A m \in bad : n <= m

\* the first result of a sequence of results that is an error, or Ok
FirstError(results) ==
    LET n == FirstBad(results)
    IN  IF n > Len(results) THEN Ok(0) ELSE results[n]

\* what the reads of a tile come to: the first error among the nametable
\* byte, the attribute byte, the pattern bytes and the palette entries
TileResult(mem, first, pattern, palette) ==
    LET bad == {p \in palette : ~IsOk(ppu_read8(mem, p.address))}
    IN  IF ~IsOk(FirstError(first)) THEN FirstError(first)
        ELSE IF ~IsOk(FirstError(pattern)) THEN FirstError(pattern)
        ELSE IF bad # {} THEN ppu_read8(mem, (CHOOSE p \in bad : TRUE).address)
        ELSE Ok(0)

\* tile k of the background, drawn from pattern table pt_base and nametable
\* nt_base with its top left corner at pixel (px_off_x, px_off_y); start is
\* the place of the first call the background pass can make.  A tile with a
\* read that fails is recorded without the calls that came before the read.
render_background_tile(mem, pt_base, nt_base, nt_tile_x, nt_tile_y, px_off_x, px_off_y, k, start) ==
    LET nt_offset == nt_tile_y * WIDTH_TILES + nt_tile_x
        nt_address == nt_base + nt_offset
        nt == ppu_read8(mem, nt_address)
        pt_offset == nt.value * PATTERN_TABLE_ENTRY_BYTES
        pt_address == BitOr(pt_base, pt_offset)
        at_base == nt_base + ATTRIBUTE_TABLE_OFFSET
        at_index == (nt_tile_y \div 4) * (WIDTH_TILES \div 4) + (nt_tile_x \div 4)
        at_byte_address == at_base + at_index
        at_byte == ppu_read8(mem, at_byte_address)
        at_bits == (at_byte.value \div (2 ^ (metatile_id(nt_tile_x, nt_tile_y) * 2))) % 4
        palette_base == BACKGROUND_PALETTE_BASE + at_bits * PALETTE_STRIDE
        pattern == pattern_reads(mem, pt_address)
        \* the pixels with a palette index in the rows that are on the display
        drawn == {p \in Opaque(pattern) :
                      px_off_y + p[1] >= 0 /\ px_off_y + p[1] < DISPLAY_HEIGHT}
        palette == {[row |-> p[1], column |-> p[2],
                     address |-> palette_base + palette_index(pattern, p[1], p[2])] :
                        p \in drawn}
        shown == {p \in palette :
                      /\ px_off_x + (TILE_WIDTH - 1 - p.column) >= 0
                      /\ px_off_x + (TILE_WIDTH - 1 - p.column) < DISPLAY_WIDTH}
        result == TileResult(mem, <<nt, at_byte>>, pattern, palette)
    IN  [result |-> result,
         calls |-> IF IsOk(result)
                       THEN {SetPixel(start + k * TilePlaces + p.row * TILE_WIDTH + p.column,
                                      "background", k,
                                      px_off_x + (TILE_WIDTH - 1 - p.column),
                                      px_off_y + p.row, 1, 1,
                                      ppu_read8(mem, p.address).value) : p \in shown}
                       ELSE {},
         reads |-> TileReads(nt_address, at_byte_address, pt_address, palette)]

\* render_universal_background leaving the last row of the display out
render_universal_background_short(mem, start) ==
    LET colour == ppu_read8(mem, UNIVERSAL_BACKGROUND_COLOUR)
    IN  [result |-> IF IsOk(colour) THEN Ok(0) ELSE colour,
         calls |-> IF IsOk(colour)
                       THEN {SetPixel(start, "universal", 0, 0, 0,
                                      DISPLAY_WIDTH, DISPLAY_HEIGHT - 1, colour.value)}
                       ELSE {},
         reads |-> <<UNIVERSAL_BACKGROUND_COLOUR>>]

\* start is the place of the first call
render_universal_background(mem, start) ==
    LET colour == ppu_read8(mem, UNIVERSAL_BACKGROUND_COLOUR)
    IN  [result |-> IF IsOk(colour) THEN Ok(0) ELSE colour,
         calls |-> IF IsOk(colour)
                       THEN {SetPixel(start, "universal", 0, 0, 0,
                                      DISPLAY_WIDTH, DISPLAY_HEIGHT, colour.value)}
                       ELSE {},
         reads |-> <<UNIVERSAL_BACKGROUND_COLOUR>>]

\* tile_coord_to_nametable_base with the first nametable below itself too
tile_coord_to_nametable_base_wrapped(x, y) ==
    IF x < WIDTH_TILES
        THEN 8192
        ELSE (IF y < HEIGHT_TILES THEN 9216 ELSE 11264)

tile_coord_to_nametable_base(x, y) ==
    IF x < WIDTH_TILES
        THEN (IF y < HEIGHT_TILES THEN 8192 ELSE 10240)
        ELSE (IF y < HEIGHT_TILES THEN 9216 ELSE 11264)

\* the tiles are numbered in the order of the loops: tile k is row
\* k \div (WIDTH_TILES + 1), column k % (WIDTH_TILES + 1); the tiles after
\* one whose read fails are not drawn
render_background(self, mem, start) ==
    LET pt_base == background_base_patterntable_address(self)
        top_left == background_top_left_coord(self)
        pixel_offset_x == BitAnd(top_left.x, SUBTILE_OFFSET_MASK)
        pixel_offset_y == BitAnd(top_left.y, SUBTILE_OFFSET_MASK)
        tile_offset_x == top_left.x \div (2 ^ TILE_SIZE_BITS)
        tile_offset_y == top_left.y \div (2 ^ TILE_SIZE_BITS)
        Tile(k) ==
            LET i == k \div (WIDTH_TILES + 1)
                j == k % (WIDTH_TILES + 1)
                abs_i == (i + tile_offset_y) % (HEIGHT_TILES * 2)
                abs_j == (j + tile_offset_x) % (WIDTH_TILES * 2)
            IN  render_background_tile(mem, pt_base,
                                       tile_coord_to_nametable_base(abs_j, abs_i),
                                       abs_j % WIDTH_TILES, abs_i % HEIGHT_TILES,
                                       j * TILE_WIDTH - pixel_offset_x,
                                       i * TILE_HEIGHT - pixel_offset_y, k, start)
        \* (the concatenation makes the tiles a sequence that is computed once)
        tiles == [n \in 1..((HEIGHT_TILES + 1) * (WIDTH_TILES + 1)) |-> Tile(n - 1)] \o <<>>
        bad == FirstBad([n \in DOMAIN tiles |-> tiles[n].result])
    IN  [result |-> IF bad > Len(tiles) THEN Ok(0) ELSE tiles[bad].result,
         calls |-> UNION {tiles[n].calls : n \in 1..(bad - 1)},
         reads |-> [n \in DOMAIN tiles |-> tiles[n].reads]]

\* sprite n of oam; start is the place of the first call the sprite pass can
\* make
render_sprite_8x8(self, mem, sprite, n, start) ==
    LET pt_base == sprite_base_patterntable_address(self)
        pt_offset == sprite.index * PATTERN_TABLE_ENTRY_BYTES
        pt_address == BitOr(pt_base, pt_offset)
        palette_base == SPRITE_PALETTE_BASE + sprite.palette * PALETTE_STRIDE
        pattern == pattern_reads(mem, pt_address)
        palette == {[row |-> p[1], column |-> p[2],
                     address |-> palette_base + palette_index(pattern, p[1], p[2])] :
                        p \in Opaque(pattern)}
        result == TileResult(mem, <<>>, pattern, palette)
    IN  [result |-> result,
         hit |-> IsOk(result) /\ palette # {},
         calls |-> IF IsOk(result)
                       THEN {SetPixel(start + n * TilePlaces + p.row * TILE_WIDTH + p.column,
                                      "sprite", n,
                                      IF sprite.horizontal_flip
                                          THEN sprite.x + p.column
                                          ELSE sprite.x + TILE_WIDTH - 1 - p.column,
                                      IF sprite.vertical_flip
                                          THEN sprite.y + TILE_HEIGHT - 1 - p.row
                                          ELSE sprite.y + p.row,
                                      1, 1, ppu_read8(mem, p.address).value) : p \in palette}
                       ELSE {},
         reads |-> SpriteReads(TRUE, pt_address, palette)]

\* what render_sprites_8x8 does with sprite n: nothing when it is not visible
render_sprite(self, mem, n, start) ==
    LET index == n * SPRITE_STRIDE
        sprite == Sprite_new(self.oam[index + 3], self.oam[index + 0],
                             self.oam[index + 2], self.oam[index + 1])
    IN  IF is_visible(sprite)
            THEN render_sprite_8x8(self, mem, sprite, n, start)
            ELSE [result |-> Ok(0), hit |-> FALSE, calls |-> {},
                  reads |-> SpriteReads(FALSE, 0, {})]

\* render_sprites_8x8 setting the flag for a hit of any sprite
render_sprites_8x8_any_hit(self, mem, start) ==
    LET sprites == [n \in 1..NUM_SPRITES |-> render_sprite(self, mem, n - 1, start)] \o <<>>
        bad == FirstBad([n \in DOMAIN sprites |-> sprites[n].result])
    IN  [ppu |-> IF \E n \in DOMAIN sprites : sprites[n].hit
                     THEN [self EXCEPT !.registers.status = BitOr(@, STATUS_SPRITE_0_HIT)]
                     ELSE self,
         result |-> IF bad > Len(sprites) THEN Ok(0) ELSE sprites[bad].result,
         calls |-> UNION {sprites[n].calls : n \in 1..(bad - 1)},
         reads |-> [n \in DOMAIN sprites |-> sprites[n].reads]]

\* the sprites after one whose read fails are not drawn
render_sprites_8x8(self, mem, start) ==
    LET sprites == [n \in 1..NUM_SPRITES |-> render_sprite(self, mem, n - 1, start)] \o <<>>
        bad == FirstBad([n \in DOMAIN sprites |-> sprites[n].result])
    IN  [ppu |-> IF sprites[1].hit
                     THEN [self EXCEPT !.registers.status = BitOr(@, STATUS_SPRITE_0_HIT)]
                     ELSE self,
         result |-> IF bad > Len(sprites) THEN Ok(0) ELSE sprites[bad].result,
         calls |-> UNION {sprites[n].calls : n \in 1..(bad - 1)},
         reads |-> [n \in DOMAIN sprites |-> sprites[n].reads]]

\* render with the sprite pass before the background pass
render_sprites_first(self, mem) ==
    LET u == render_universal_background(mem, 0)
        s == render_sprites_8x8(self, mem, UniversalPlaces)
        b == render_background(self, mem, UniversalPlaces + SpritePlaces)
    IN  IF ~IsOk(u.result)
            THEN [ppu |-> self, result |-> u.result, calls |-> u.calls,
                  reads |-> [BusLog_new EXCEPT !.universal = u.reads]]
        ELSE IF ~IsOk(s.result)
            THEN [ppu |-> s.ppu, result |-> s.result, calls |-> u.calls \cup s.calls,
                  reads |-> [BusLog_new EXCEPT !.universal = u.reads,
                                               !.sprites = s.reads]]
        ELSE [ppu |-> s.ppu, result |-> b.result,
              calls |-> u.calls \cup s.calls \cup b.calls,
              reads |-> [universal |-> u.reads, background |-> b.reads,
                         sprites |-> s.reads]]

\* render: the three passes in turn, the first failure ending it
render(self, mem) ==
    LET u == render_universal_background(mem, 0)
        b == render_background(self, mem, UniversalPlaces)
        s == render_sprites_8x8(self, mem, UniversalPlaces + BackgroundPlaces)
    IN  IF ~IsOk(u.result)
            THEN [ppu |-> self, result |-> u.result, calls |-> u.calls,
                  reads |-> [BusLog_new EXCEPT !.universal = u.reads]]
        ELSE IF ~IsOk(b.result)
            THEN [ppu |-> self, result |-> b.result, calls |-> u.calls \cup b.calls,
                  reads |-> [BusLog_new EXCEPT !.universal = u.reads,
                                               !.background = b.reads]]
        ELSE [ppu |-> s.ppu, result |-> s.result,
              calls |-> u.calls \cup b.calls \cup s.calls,
              reads |-> [universal |-> u.reads, background |-> b.reads,
                         sprites |-> s.reads]]

----------------------------------------------------------------------------
(* The record of an operation: its inputs, its result, and the Ppu fields  *)
(* (all but oam) as they were before it and as it left them.               *)

Snapshot(self) ==
    [registers |-> self.registers,
     scroll_axis |-> self.scroll_axis,
     scroll_x |-> self.scroll_x,
     scroll_y |-> self.scroll_y,
     address_phase |-> self.address_phase,
     address |-> self.address,
     data_latch |-> self.data_latch]

OpRec(op, a, data, result, bus, nmi_in, nmi_out, after) ==
    [op |-> op, address |-> a, data |-> data, result |-> result, bus |-> bus,
     nmi_in |-> nmi_in, nmi_out |-> nmi_out,
     pre |-> Snapshot(ppu), post |-> Snapshot(after)]

Push(h, rec) ==
    IF Len(h) < HistLen THEN Append(h, rec) ELSE Append(Tail(h), rec)

\* the k-th most recent operation (1 is the last one)
Recent(k) == hist[Len(hist) + 1 - k]

----------------------------------------------------------------------------------------------------------------------------------------------
(* Inputs *)

\* the register offsets of the cpu bus
RegAddrs == 0..7

\* bytes written under Spec: 0x1B (low five bits 11011, bits 2 and 7 clear)
\* and 0xA4 (low five bits 00100, bits 2, 5 and 7 set)
Bytes == {27, 164}

\* bytes written under SpecData: to CONTROLLER 0x04 (increment by 32), to
\* ADDRESS 0x10, 0x3F and 0xFF, to DATA 0xAB
DataControllerBytes == {4}
DataAddressBytes == {16, 63, 255}
DataBytes == {171}

\* under SpecOam: the oam addresses a run starts at, and the byte that the
\* k-th OAM_DATA write of a run writes (k from 0)
OamStarts == {0, 164, 255}
OamByte(k) == (k * 7 + 3) % 256

Init ==
    /\ ppu = Ppu_new
    /\ memory = [cartridge |-> [x \in {} |-> 0],
                 palette |-> [i \in 0..(PALETTE_SIZE - 1) |-> 0]]
    /\ hist = <<>>
    /\ oam_log = [start |-> 0, bytes |-> <<>>]
    /\ steps = 0
    /\ frame = Frame_new
    /\ bus_log = BusLog_new

\* oam_log after a write8: OAM_ADDRESS starts a run, OAM_DATA extends it
LogWrite(a, data) ==
    IF a = OAM_ADDRESS THEN [start |-> data, bytes |-> <<>>]
    ELSE IF a = OAM_DATA THEN [oam_log EXCEPT !.bytes = Append(@, data)]
    ELSE oam_log

DoWrite8(a, data) ==
    LET r == write8(ppu, a, data, memory)
    IN  /\ ppu' = r.ppu
        /\ memory' = r.memory
        /\ hist' = Push(hist, OpRec("write8", a, data, r.result, r.bus, FALSE, FALSE, r.ppu))
        /\ oam_log' = LogWrite(a, data)
        /\ steps' = steps + 1
        /\ UNCHANGED <<frame, bus_log>>

DoRead8(a) ==
    LET r == read8(ppu, a, memory)
    IN  /\ ppu' = r.ppu
        /\ memory' = r.memory
        /\ hist' = Push(hist, OpRec("read8", a, 0, r.result, r.bus, FALSE, FALSE, r.ppu))
        /\ steps' = steps + 1
        /\ UNCHANGED <<oam_log, frame, bus_log>>

DoVblankStart(nmi) ==
    LET r == vblank_start(ppu, [nmi |-> nmi])
    IN  /\ ppu' = r.ppu
        /\ hist' = Push(hist, OpRec("vblank_start", 0, 0, Ok(0), -1, nmi, r.interrupts.nmi, r.ppu))
        /\ steps' = steps + 1
        /\ UNCHANGED <<memory, oam_log, frame, bus_log>>

DoVblankEnd(nmi) ==
    LET r == vblank_end(ppu, [nmi |-> nmi])
    IN  /\ ppu' = r.ppu
        /\ hist' = Push(hist, OpRec("vblank_end", 0, 0, Ok(0), -1, nmi, r.interrupts.nmi, r.ppu))
        /\ steps' = steps + 1
        /\ UNCHANGED <<memory, oam_log, frame, bus_log>>

DoRenderEnd ==
    /\ ppu' = render_end(ppu)
    /\ hist' = Push(hist, OpRec("render_end", 0, 0, Ok(0), -1, FALSE, FALSE, render_end(ppu)))
    /\ steps' = steps + 1
    /\ UNCHANGED <<memory, oam_log, frame, bus_log>>

----------------------------------------------------------------------------
(* Spec: every operation of the cpu bus and of the frame scheduler, in any *)
(* order, from a freshly constructed Ppu.                                  *)

Write8 == \E a \in RegAddrs, data \in Bytes : steps < MaxOps /\ DoWrite8(a, data)
Read8 == \E a \in RegAddrs : steps < MaxOps /\ DoRead8(a)
VblankStart == \E nmi \in BOOLEAN : steps < MaxOps /\ DoVblankStart(nmi)
VblankEnd == \E nmi \in BOOLEAN : steps < MaxOps /\ DoVblankEnd(nmi)
RenderEnd == steps < MaxOps /\ DoRenderEnd

Next == Write8 \/ Read8 \/ VblankStart \/ VblankEnd \/ RenderEnd

Spec == Init /\ [][Next]_vars

----------------------------------------------------------------------------
(* SpecData: the ADDRESS / DATA port protocol, from a freshly constructed  *)
(* Ppu: CONTROLLER, ADDRESS and DATA writes and DATA reads in any order.   *)

DataController ==
    \E data \in DataControllerBytes : steps < MaxDataOps /\ DoWrite8(CONTROLLER, data)
DataAddress ==
    \E data \in DataAddressBytes : steps < MaxDataOps /\ DoWrite8(ADDRESS, data)
DataWrite ==
    \E data \in DataBytes : steps < MaxDataOps /\ DoWrite8(DATA, data)
DataRead == steps < MaxDataOps /\ DoRead8(DATA)

NextData == DataController \/ DataAddress \/ DataWrite \/ DataRead

SpecData == Init /\ [][NextData]_vars

----------------------------------------------------------------------------
(* SpecOam: a run of OAM_DATA writes from a freshly constructed Ppu,       *)
(* optionally begun by setting OAM_ADDRESS, and ended by an OAM_DATA read  *)
(* (what follows a read is covered by Spec).                               *)

OamRunning == IF Len(hist) = 0 THEN TRUE ELSE Recent(1).op = "write8"

OamSetAddress ==
    \E data \in OamStarts : steps = 0 /\ DoWrite8(OAM_ADDRESS, data)
OamWrite ==
    steps < MaxOamOps /\ OamRunning /\ DoWrite8(OAM_DATA, OamByte(Len(oam_log.bytes)))
OamRead ==
    steps < MaxOamOps /\ OamRunning /\ DoRead8(OAM_DATA)

NextOam == OamSetAddress \/ OamWrite \/ OamRead

SpecOam == Init /\ [][NextOam]_vars

----------------------------------------------------------------------------
(* SpecBus: reads and writes presented to PpuMemoryLayout itself, at the   *)
(* ends of each range of the routing table, from the initial bus content.  *)

\* 0x0000, 0x1FFF, 0x2000, 0x2FFF, 0x3000, 0x3EFF, 0x3F00, 0x3F1F, 0x3F20,
\* 0x3F3F, 0x3F40, 0x3FFF, 0x4000, 0xFFFF
BusAddrs == {0, 8191, 8192, 12287, 12288, 16127, 16128, 16159, 16160,
             16191, 16192, 16383, 16384, 65535}
BusBytes == {90, 195}

DoBusWrite(a, data) ==
    LET w == ppu_write8(memory, a, data)
    IN  /\ memory' = w.memory
        /\ hist' = Push(hist, OpRec("ppu_write8", a, data, w.result, a, FALSE, FALSE, ppu))
        /\ steps' = steps + 1
        /\ UNCHANGED <<ppu, oam_log, frame, bus_log>>

DoBusRead(a) ==
    /\ hist' = Push(hist, OpRec("ppu_read8", a, 0, ppu_read8(memory, a), a, FALSE, FALSE, ppu))
    /\ steps' = steps + 1
    /\ UNCHANGED <<ppu, memory, oam_log, frame, bus_log>>

BusWrite == \E a \in BusAddrs, data \in BusBytes : steps < MaxBusOps /\ DoBusWrite(a, data)
BusRead == \E a \in BusAddrs : steps < MaxBusOps /\ DoBusRead(a)

NextBus == BusWrite \/ BusRead

SpecBus == Init /\ [][NextBus]_vars

----------------------------------------------------------------------------
(* SpecRoundTrip: on a freshly constructed Ppu (increment 1), the address  *)
(* A = (h, l) is written to ADDRESS, two bytes are written to DATA, the    *)
(* same address is written to ADDRESS again and DATA is read three times.  *)

\* h is 0x20 or 0x3F, l is 0x00, 0xFE or 0xFF; the bytes are 0xAB and 0xCD
RoundTripHigh == {32, 63}
RoundTripLow == {0, 254, 255}
RoundTripBytes == {171, 205}

RoundTripAddress ==
    \/ \E h \in RoundTripHigh : steps = 0 /\ DoWrite8(ADDRESS, h)
    \/ \E l \in RoundTripLow : steps = 1 /\ DoWrite8(ADDRESS, l)
    \/ steps \in {4, 5} /\ DoWrite8(ADDRESS, hist[steps - 3].data)
RoundTripWrite ==
    \E data \in RoundTripBytes : steps \in {2, 3} /\ DoWrite8(DATA, data)
RoundTripRead == steps \in {6, 7, 8} /\ DoRead8(DATA)

NextRoundTrip == RoundTripAddress \/ RoundTripWrite \/ RoundTripRead

SpecRoundTrip == Init /\ [][NextRoundTrip]_vars

----------------------------------------------------------------------------
(* SpecRender: one frame.  The cpu has set up the Ppu by register writes,   *)
(* on a cartridge whose CHR holds a few tiles; the frame is rendered, and  *)
(* STATUS reads and render_end follow in any order.                        *)

\* the CHR content: in pattern table 0, tile 1 has palette index 1 at both
\* ends of its top row and tile 2 has palette index 2 at two pixels of its
\* bottom row; in pattern table 1, tile 1 has palette index 3 at one pixel of
\* its row 3; every other byte is zero
RenderChr(a) ==
    IF a = 16 THEN 129
    ELSE IF a = 47 THEN 24
    ELSE IF a = 4096 + 19 \/ a = 4096 + 27 THEN 1
    ELSE 0

RenderCartridge == [a \in 0..(NAME_TABLE_START - 1) |-> RenderChr(a)]

\* the byte the setup writes to palette entry k
PaletteByte(k) == (2 * k + 1) % 64

\* the choices of a setup
\* CONTROLLER, then scroll_x and scroll_y: all zero, or both nametable bits
\* and both pattern table bits set with a scroll of (3, 5)
RenderViews == {<<0, 0, 0>>, <<27, 3, 5>>}
RenderNametableBytes == {0, 1}
\* sprite 0: x and y, then tile index and attributes
RenderSprite0Places == {<<0, 0>>, <<255, 238>>, <<0, 239>>}
RenderSprite0Looks == {<<0, 0>>, <<1, 0>>, <<1, 193>>}
\* sprite 1, at x = 0, y = 0 with palette 2: tile index
RenderSprite1Tiles == {0, 1}

Write(a, data) == [address |-> a, data |-> data]

\* the register writes of a setup: oam entries 0 and 1, the nametable byte
\* of tile (0, 0) and its attribute byte, the 32 palette entries, the scroll
\* pair and CONTROLLER
RenderSetup(view, nt, place, look, tile1) ==
    <<Write(OAM_ADDRESS, 0),
      Write(OAM_DATA, place[2]), Write(OAM_DATA, look[1]),
      Write(OAM_DATA, look[2]), Write(OAM_DATA, place[1]),
      Write(OAM_DATA, 0), Write(OAM_DATA, tile1),
      Write(OAM_DATA, 2), Write(OAM_DATA, 0),
      Write(ADDRESS, 32), Write(ADDRESS, 0), Write(DATA, nt),
      Write(ADDRESS, 35), Write(ADDRESS, 192), Write(DATA, 2),
      Write(ADDRESS, 63), Write(ADDRESS, 0)>>
    \o [k \in 1..PALETTE_SIZE |-> Write(DATA, PaletteByte(k - 1))]
    \o <<Write(SCROLL, view[2]), Write(SCROLL, view[3]),
          Write(CONTROLLER, view[1])>>

\* the Ppu and the bus after the writes of a script, which ends at the first
\* write that is refused
RECURSIVE RunWrites(_, _, _)
RunWrites(self, mem, script) ==
    IF script = <<>> THEN [ppu |-> self, memory |-> mem]
    ELSE LET r == write8(self, Head(script).address, Head(script).data, mem)
         IN  IF IsOk(r.result)
                 THEN RunWrites(r.ppu, r.memory, Tail(script))
                 ELSE [ppu |-> r.ppu, memory |-> r.memory]

InitRender ==
    \E view \in RenderViews, nt \in RenderNametableBytes,
       place \in RenderSprite0Places, look \in RenderSprite0Looks,
       tile1 \in RenderSprite1Tiles :
        \E s \in {RunWrites(Ppu_new,
                             [cartridge |-> RenderCartridge,
                              palette |-> [i \in 0..(PALETTE_SIZE - 1) |-> 0]],
                             RenderSetup(view, nt, place, look, tile1))} :
            /\ ppu = s.ppu
            /\ memory = s.memory
            /\ hist = <<>>
            /\ oam_log = [start |-> 0, bytes |-> <<>>]
            /\ steps = 0
            /\ frame = Frame_new
            /\ bus_log = BusLog_new

\* a render on a Frame that has received no call yet
DoRender ==
    \E r \in {render(ppu, memory)} :
        /\ ppu' = r.ppu
        /\ frame' = r.calls
        /\ bus_log' = r.reads
        /\ hist' = Push(hist, OpRec("render", 0, 0, r.result, -1, FALSE, FALSE, r.ppu))
        /\ steps' = steps + 1
        /\ UNCHANGED <<memory, oam_log>>

RenderFrame == steps = 0 /\ DoRender
RenderFrameEnd == steps > 0 /\ steps < MaxRenderOps /\ DoRenderEnd
RenderStatus == steps > 0 /\ steps < MaxRenderOps /\ DoRead8(STATUS)

NextRender == RenderFrame \/ RenderFrameEnd \/ RenderStatus

SpecRender == InitRender /\ [][NextRender]_vars

----------------------------------------------------------------------------
(* SpecRenderEdge: one frame, as under SpecRender, of scenes at the ends   *)
(* of the ranges: the last tile of both pattern tables, the last bytes of  *)
(* the last nametable, the last palette, the last sprite of oam, and the   *)
(* greatest scroll.                                                        *)

\* the CHR content: in both pattern tables tile 255 has palette index 3 at
\* one pixel of its bottom row; every other byte is zero
EdgeChr(a) == IF a \in {4087, 4095, 8183, 8191} THEN 1 ELSE 0

EdgeCartridge == [a \in 0..(NAME_TABLE_START - 1) |-> EdgeChr(a)]

\* CONTROLLER, then scroll_x and scroll_y
EdgeViews == {<<0, 0, 0>>, <<27, 0, 0>>, <<27, 255, 255>>, <<11, 7, 239>>}
\* the byte written to the first and to the last nametable byte, and the
\* byte written to the first and to the last attribute byte
EdgeNametableBytes == {0, 255}
EdgeAttributeBytes == {0, 255}
\* sprite 0: y, attributes and x
EdgeSprite0 == {<<0, 0, 0>>, <<238, 227, 255>>}

\* the register writes of a setup: sprite 0 and sprite 63 of oam, both with
\* tile 255, the first byte of nametable 0 and the last of nametable 3 with
\* their attribute bytes, the 32 palette entries, the scroll pair and
\* CONTROLLER
EdgeSetup(view, nt, at, sprite) ==
    <<Write(OAM_ADDRESS, 0),
      Write(OAM_DATA, sprite[1]), Write(OAM_DATA, 255),
      Write(OAM_DATA, sprite[2]), Write(OAM_DATA, sprite[3]),
      Write(OAM_ADDRESS, 252),
      Write(OAM_DATA, 238), Write(OAM_DATA, 255),
      Write(OAM_DATA, 3), Write(OAM_DATA, 255),
      Write(ADDRESS, 32), Write(ADDRESS, 0), Write(DATA, nt),
      Write(ADDRESS, 35), Write(ADDRESS, 192), Write(DATA, at),
      Write(ADDRESS, 47), Write(ADDRESS, 191), Write(DATA, nt),
      Write(ADDRESS, 47), Write(ADDRESS, 255), Write(DATA, at),
      Write(ADDRESS, 63), Write(ADDRESS, 0)>>
    \o [k \in 1..PALETTE_SIZE |-> Write(DATA, PaletteByte(k - 1))]
    \o <<Write(SCROLL, view[2]), Write(SCROLL, view[3]),
          Write(CONTROLLER, view[1])>>

InitRenderEdge ==
    \E view \in EdgeViews, nt \in EdgeNametableBytes,
       at \in EdgeAttributeBytes, sprite \in EdgeSprite0 :
        \E s \in {RunWrites(Ppu_new,
                             [cartridge |-> EdgeCartridge,
                              palette |-> [i \in 0..(PALETTE_SIZE - 1) |-> 0]],
                             EdgeSetup(view, nt, at, sprite))} :
            /\ ppu = s.ppu
            /\ memory = s.memory
            /\ hist = <<>>
            /\ oam_log = [start |-> 0, bytes |-> <<>>]
            /\ steps = 0
            /\ frame = Frame_new
            /\ bus_log = BusLog_new

SpecRenderEdge == InitRenderEdge /\ [][NextRender]_vars

----------------------------------------------------------------------------
(* SpecHit: the frame after a render.  The Ppu is set up as under          *)
(* SpecRender, with sprite 0 at the top left corner, blank or opaque; the  *)
(* frame is rendered, and every operation of the cpu bus and of the frame  *)
(* scheduler follows in any order.                                         *)

\* sprite 0: tile index and attributes
HitSprite0Looks == {<<0, 0>>, <<1, 0>>}

InitHit ==
    \E look \in HitSprite0Looks :
        \E s \in {RunWrites(Ppu_new,
                             [cartridge |-> RenderCartridge,
                              palette |-> [i \in 0..(PALETTE_SIZE - 1) |-> 0]],
                             RenderSetup(<<0, 0, 0>>, 0, <<0, 0>>, look, 1))} :
            /\ ppu = s.ppu
            /\ memory = s.memory
            /\ hist = <<>>
            /\ oam_log = [start |-> 0, bytes |-> <<>>]
            /\ steps = 0
            /\ frame = Frame_new
            /\ bus_log = BusLog_new

HitRunning == steps > 0 /\ steps < MaxHitOps

HitRender == steps = 0 /\ DoRender
HitWrite8 == \E a \in RegAddrs, data \in Bytes : HitRunning /\ DoWrite8(a, data)
HitRead8 == \E a \in RegAddrs : HitRunning /\ DoRead8(a)
HitVblankStart == \E nmi \in BOOLEAN : HitRunning /\ DoVblankStart(nmi)
HitVblankEnd == \E nmi \in BOOLEAN : HitRunning /\ DoVblankEnd(nmi)
HitRenderEnd == HitRunning /\ DoRenderEnd

NextHit ==
    HitRender \/ HitWrite8 \/ HitRead8 \/ HitVblankStart \/ HitVblankEnd \/ HitRenderEnd

SpecHit == InitHit /\ [][NextHit]_vars

----------------------------------------------------------------------------
(* Properties *)

IsWrite(r, a) == r.op = "write8" /\ r.address = a
IsRead(r, a) == r.op = "read8" /\ r.address = a
IsDataAccess(r) == (r.op = "write8" \/ r.op = "read8") /\ r.address = DATA

\* bit n of byte x is set
BitSet(x, n) == (x \div (2 ^ n)) % 2 = 1

\* the two most recent operations are SCROLL writes, the first with the
\* toggle at X
ScrollPair ==
    /\ Len(hist) >= 2
    /\ IsWrite(Recent(2), SCROLL)
    /\ Recent(2).pre.scroll_axis = "X"
    /\ IsWrite(Recent(1), SCROLL)

\* C1: two consecutive SCROLL writes of a then b, begun with the toggle at X,
\* leave scroll_x = a, scroll_y = b and the toggle at X.
C1_ScrollPairCommits ==
    ScrollPair =>
        /\ ppu.scroll_x = Recent(2).data
        /\ ppu.scroll_y = Recent(1).data
        /\ ppu.scroll_axis = "X"

\* a pair with a # b, written after an earlier write had changed the registers
C1_Witness ==
    /\ ScrollPair
    /\ Len(hist) = 3
    /\ Recent(2).data # Recent(1).data
    /\ Recent(2).pre.registers.status # 0
    /\ ppu.scroll_x = Recent(2).data

\* the three most recent operations are ADDRESS writes of h then l, begun with
\* the phase at HIGH, and a DATA access
AddressPairThenData ==
    /\ Len(hist) >= 3
    /\ IsWrite(Recent(3), ADDRESS)
    /\ Recent(3).pre.address_phase = "HIGH"
    /\ IsWrite(Recent(2), ADDRESS)
    /\ IsDataAccess(Recent(1))

\* C2: after ADDRESS writes of h then l, begun at HIGH, the phase is back at
\* HIGH and the next DATA access presents ((h & 0x3F) << 8) | l to the PPU bus.
C2_AddressPairMasked ==
    AddressPairThenData =>
        /\ Recent(1).pre.address_phase = "HIGH"
        /\ Recent(1).bus = BitOr(BitAnd(Recent(3).data, 63) * 256, Recent(2).data)

\* C3: a STATUS read returns STATUS as it was and clears only bit 7; a second
\* STATUS read right after it returns the first value with bit 7 cleared.
C3_StatusRead ==
    /\ (Len(hist) >= 1 /\ IsRead(Recent(1), STATUS)) =>
          /\ Recent(1).result = Ok(Recent(1).pre.registers.status)
          /\ ppu.registers.status = Recent(1).pre.registers.status % 128
    /\ (Len(hist) >= 2 /\ IsRead(Recent(2), STATUS) /\ IsRead(Recent(1), STATUS)) =>
          /\ Recent(2).result = Ok(Recent(2).pre.registers.status)
          /\ Recent(1).result = Ok(Recent(2).pre.registers.status % 128)

\* two STATUS reads in succession, the first of a STATUS with VBLANK set
C3_Witness ==
    /\ Len(hist) >= 2
    /\ IsRead(Recent(2), STATUS)
    /\ IsRead(Recent(1), STATUS)
    /\ Recent(2).pre.registers.status >= 128
    /\ Recent(1).result = Ok(Recent(2).pre.registers.status - 128)

\* C4: after a STATUS read the address phase is HIGH and the scroll toggle is X.
C4_StatusReadResetsToggles ==
    (Len(hist) >= 1 /\ IsRead(Recent(1), STATUS)) =>
        /\ ppu.address_phase = "HIGH"
        /\ ppu.scroll_axis = "X"

\* C5: after a write of byte d to any register offset 0..7, the low five bits
\* of STATUS are d & 0x1F.
C5_LowBitsAreLastWrite ==
    (Len(hist) >= 1 /\ Recent(1).op = "write8" /\ Recent(1).address \in 0..7) =>
        ppu.registers.status % 32 = Recent(1).data % 32

\* the address increment CONTROLLER bit 2 selects
Increment(controller) == IF BitSet(controller, 2) THEN 32 ELSE 1

\* the four most recent operations are the ADDRESS write that commits
\* vram_address and three DATA reads
CommitThenThreeReads ==
    /\ Len(hist) >= 4
    /\ IsWrite(Recent(4), ADDRESS)
    /\ Recent(4).pre.address_phase = "LOW"
    /\ IsRead(Recent(3), DATA)
    /\ IsRead(Recent(2), DATA)
    /\ IsRead(Recent(1), DATA)

\* C6: after ADDRESS has been set to a mapped A, the first DATA read returns
\* the latch as it was, the second the bus content at A, the third the bus
\* content at A + inc (inc 1 or 32 per CONTROLLER bit 2).
C6_DataReadDelay ==
    (CommitThenThreeReads /\ Mapped(Recent(3).pre.address)) =>
        LET A == Recent(3).pre.address
            inc == Increment(Recent(3).pre.registers.controller)
        IN  /\ Recent(3).result = Ok(Recent(3).pre.data_latch)
            /\ Recent(2).result = ppu_read8(memory, A)
            /\ Recent(1).result = ppu_read8(memory, (A + inc) % 65536)

\* C6 with A, A + inc and A + 2 * inc all mapped (each of the three reads
\* then succeeds), and the latch refilled by the third read
C6_DataReadDelayMapped ==
    (/\ CommitThenThreeReads
     /\ \A k \in 0..2 : Mapped((Recent(3).pre.address
                                + k * Increment(Recent(3).pre.registers.controller)) % 65536)) =>
        LET A == Recent(3).pre.address
            inc == Increment(Recent(3).pre.registers.controller)
        IN  /\ Recent(3).result = Ok(Recent(3).pre.data_latch)
            /\ Recent(2).result = ppu_read8(memory, A)
            /\ Recent(1).result = ppu_read8(memory, (A + inc) % 65536)
            /\ ppu.data_latch = ppu_read8(memory, (A + 2 * inc) % 65536).value

\* C7: a successful DATA access moves vram_address by 32 (CONTROLLER bit 2
\* set) or 1 (clear) modulo 65536; apart from the ADDRESS write that commits,
\* no other operation changes it.
C7_AddressIncrement ==
    Len(hist) >= 1 =>
        LET r == Recent(1)
        IN  IF IsDataAccess(r) /\ IsOk(r.result)
                THEN ppu.address =
                         (r.pre.address + Increment(r.pre.registers.controller)) % 65536
            ELSE IF IsWrite(r, ADDRESS) /\ r.pre.address_phase = "LOW"
                THEN TRUE
            ELSE ppu.address = r.pre.address

\* a successful DATA access with the increment at 32, from a vram_address
\* that an earlier access had already moved
C7_Witness ==
    /\ Len(hist) >= 1
    /\ IsDataAccess(Recent(1))
    /\ IsOk(Recent(1).result)
    /\ BitSet(Recent(1).pre.registers.controller, 2)
    /\ Recent(1).pre.address = 32
    /\ ppu.address = 64

\* C8: an OAM_DATA write stores the byte at OAM[oam_addr] and then advances
\* oam_addr by one modulo 256, so a run of N writes begun at address s ends at
\* (s + N) mod 256 with the last 256 bytes of the run in place (256 writes
\* from 0 fill OAM in order and end at 0); an OAM_DATA read returns
\* OAM[oam_addr] and leaves oam_addr alone.
C8_OamData ==
    LET s == oam_log.start
        n == Len(oam_log.bytes)
    IN  /\ ppu.registers.oam_address = (s + n) % 256
        /\ \A k \in 1..n :
              k > n - 256 => ppu.oam[(s + k - 1) % 256] = oam_log.bytes[k]
        /\ (s = 0 /\ n = 256) =>
              /\ ppu.registers.oam_address = 0
              /\ \A i \in 0..255 : ppu.oam[i] = oam_log.bytes[i + 1]
        /\ (Len(hist) >= 1 /\ IsWrite(Recent(1), OAM_DATA)) =>
              /\ ppu.oam[Recent(1).pre.registers.oam_address] = Recent(1).data
              /\ ppu.registers.oam_address =
                     (Recent(1).pre.registers.oam_address + 1) % 256
        /\ (Len(hist) >= 1 /\ IsRead(Recent(1), OAM_DATA)) =>
              /\ Recent(1).result = Ok(ppu.oam[Recent(1).pre.registers.oam_address])
              /\ ppu.registers.oam_address = Recent(1).pre.registers.oam_address

\* 256 writes from oam_addr 0, then a read
C8_Witness ==
    /\ oam_log.start = 0
    /\ Len(oam_log.bytes) = 256
    /\ Len(hist) >= 1
    /\ IsRead(Recent(1), OAM_DATA)
    /\ Recent(1).result = Ok(OamByte(0))

\* C9: vblank_start sets STATUS.VBLANK; the interrupt state it returns has
\* nmi set if CONTROLLER bit 7 is set and is the one it was given otherwise.
C9_VblankStart ==
    (Len(hist) >= 1 /\ Recent(1).op = "vblank_start") =>
        /\ BitSet(ppu.registers.status, 7)
        /\ IF BitSet(Recent(1).pre.registers.controller, 7)
               THEN Recent(1).nmi_out = TRUE
               ELSE Recent(1).nmi_out = Recent(1).nmi_in

\* vblank_start with the NMI enabled and no nmi pending
C9_Witness ==
    /\ Len(hist) >= 1
    /\ Recent(1).op = "vblank_start"
    /\ BitSet(Recent(1).pre.registers.controller, 7)
    /\ Recent(1).nmi_in = FALSE
    /\ Recent(1).nmi_out = TRUE
    /\ ppu.registers.status >= 128

Performed == hist'[Len(hist')]

\* the offsets of the write-only registers
WriteOnly == {0, 1, 3, 5, 6}

\* C11: a cpu read of CONTROLLER, MASK, OAM_ADDRESS, SCROLL or ADDRESS
\* returns IllegalRead of the offset and changes nothing of the Ppu or the
\* bus; a cpu write to STATUS returns IllegalWrite(2) and changes nothing but
\* the low five bits of STATUS, into which the written byte is merged.
C11_IllegalAccess ==
    [][/\ (Performed.op = "read8" /\ Performed.address \in WriteOnly) =>
              /\ Performed.result = [kind |-> "IllegalRead",
                                     value |-> Performed.address]
              /\ ppu' = ppu
              /\ memory' = memory
       /\ (Performed.op = "write8" /\ Performed.address = 2) =>
              /\ Performed.result = [kind |-> "IllegalWrite", value |-> 2]
              /\ memory' = memory
              /\ ppu' = [ppu EXCEPT !.registers.status = ppu'.registers.status]
              /\ ppu'.registers.status \div 32 = ppu.registers.status \div 32
              /\ \A n \in 0..4 :
                     BitSet(ppu'.registers.status, n) <=>
                         (BitSet(ppu.registers.status, n) \/ BitSet(Performed.data, n))]_vars

\* a refused SCROLL read is followed by a refused STATUS write that sets
\* further low bits of a STATUS that already had some
C11_Witness ==
    /\ Len(hist) >= 3
    /\ IsRead(Recent(2), SCROLL)
    /\ Recent(2).result.kind = "IllegalRead"
    /\ Recent(2).pre.registers.scroll # 0
    /\ IsWrite(Recent(1), STATUS)
    /\ Recent(1).result.kind = "IllegalWrite"
    /\ Recent(1).pre.registers.status % 32 # 0
    /\ Recent(1).post.registers.status # Recent(1).pre.registers.status

\* the routing table: the collaborator an address goes to, and the address
\* it is given there
Routed(a) ==
    IF a <= 12287 THEN [to |-> "cartridge", at |-> a]
    ELSE IF a <= 16127 THEN [to |-> "cartridge", at |-> a - 4096]
    ELSE IF a <= 16159 THEN [to |-> "palette", at |-> a - 16128]
    ELSE IF a <= 16383 THEN [to |-> "palette", at |-> (a - 16160) % 32]
    ELSE [to |-> "none", at |-> a]

\* C12: reads and writes of the bus are routed alike: 0x0000..0x2FFF to the
\* cartridge at the same address, 0x3000..0x3EFF to the cartridge 0x1000
\* lower, 0x3F00..0x3F1F to the palette at the offset from 0x3F00,
\* 0x3F20..0x3FFF to the palette at the offset from 0x3F20 modulo 32; from
\* 0x4000 on the access is a BusErrorRead / BusErrorWrite of the address and
\* no collaborator is touched.  So a byte written at an address is read back
\* at every address routed to the same place.
C12_Routing ==
    [][LET r == Performed
           to == Routed(r.address).to
           at == Routed(r.address).at
       IN  /\ r.op = "ppu_write8" =>
                 /\ to = "cartridge" =>
                        /\ memory' = [memory EXCEPT !.cartridge =
                                          cartridge_ppu_write8(@, at, r.data)]
                        /\ r.result.kind = "Ok"
                 /\ to = "palette" =>
                        /\ memory' = [memory EXCEPT !.palette =
                                          palette_ppu_write8(@, at, r.data)]
                        /\ r.result.kind = "Ok"
                 /\ to = "none" =>
                        /\ memory' = memory
                        /\ r.result = [kind |-> "BusErrorWrite", value |-> r.address]
           /\ r.op = "ppu_read8" =>
                 /\ memory' = memory
                 /\ to = "cartridge" =>
                        r.result = cartridge_ppu_read8(memory.cartridge, at)
                 /\ to = "palette" =>
                        r.result = palette_ppu_read8(memory.palette, at)
                 /\ to = "none" =>
                        r.result = [kind |-> "BusErrorRead", value |-> r.address]
                 /\ (/\ Len(hist) >= 1
                     /\ Recent(1).op = "ppu_write8"
                     /\ to # "none"
                     /\ Routed(Recent(1).address) = Routed(r.address)) =>
                        r.result = [kind |-> "Ok", value |-> Recent(1).data]]_vars

\* a byte written at 0x3000 has been read back at 0x2000
C12_Witness ==
    /\ Len(hist) >= 2
    /\ Recent(2).op = "ppu_write8"
    /\ Recent(2).address = 12288
    /\ Recent(1).op = "ppu_read8"
    /\ Recent(1).address = 8192
    /\ Recent(1).result = [kind |-> "Ok", value |-> Recent(2).data]
    /\ Recent(2).data # 0

\* under SpecRoundTrip: the address A written to ADDRESS
RoundTripA == hist[1].data * 256 + hist[2].data

\* C13: on a fresh Ppu with increment 1, after ADDRESS = (h, l) for a mapped
\* address A and DATA writes of b0 and b1, the bus holds b0 at A and b1 at
\* A + 1; after ADDRESS = (h, l) again, the first DATA read returns the stale
\* latch, the second returns b0 and the third returns b1.
C13_RoundTrip ==
    /\ (steps >= 4 /\ RoundTripA < 16384) =>
           /\ ppu_read8(memory, RoundTripA) = [kind |-> "Ok", value |-> hist[3].data]
           /\ ppu_read8(memory, RoundTripA + 1) = [kind |-> "Ok", value |-> hist[4].data]
    /\ (steps = 9 /\ RoundTripA < 16384) =>
           /\ hist[7].result = [kind |-> "Ok", value |-> hist[7].pre.data_latch]
           /\ hist[8].result = [kind |-> "Ok", value |-> hist[3].data]
           /\ hist[9].result = [kind |-> "Ok", value |-> hist[4].data]

\* the same with A + 2 mapped too
C13_RoundTripMapped ==
    /\ (steps >= 4 /\ RoundTripA + 2 < 16384) =>
           /\ ppu_read8(memory, RoundTripA) = [kind |-> "Ok", value |-> hist[3].data]
           /\ ppu_read8(memory, RoundTripA + 1) = [kind |-> "Ok", value |-> hist[4].data]
    /\ (steps = 9 /\ RoundTripA + 2 < 16384) =>
           /\ hist[7].result = [kind |-> "Ok", value |-> hist[7].pre.data_latch]
           /\ hist[8].result = [kind |-> "Ok", value |-> hist[3].data]
           /\ hist[9].result = [kind |-> "Ok", value |-> hist[4].data]

\* C18: vram_address is below 0x4000 in every reachable state, so that no
\* DATA access presents an unmapped address to the bus.
C18_AddressFourteenBit ==
    /\ ppu.address < 16384
    /\ (Len(hist) >= 1 /\ IsDataAccess(Recent(1))) => Recent(1).bus < 16384

Rendered ==
    /\ Len(hist) >= 1
    /\ Recent(1).op = "render"
    /\ Recent(1).result.kind = "Ok"

\* SPRITE_0_HIT of a STATUS value
Sprite0Hit(status) == BitSet(status, 6)

\* the address of the first pattern byte of the tile of sprite 0
Sprite0Pattern ==
    (IF BitSet(ppu.registers.controller, 3) THEN 4096 ELSE 0) + 16 * ppu.oam[1]

\* C14: a successful render that starts with SPRITE_0_HIT clear ends with it
\* set exactly when sprite 0 is visible (oam[0] < 0xEF) and its tile has a
\* pixel with a palette index that is not zero, which is when one of the
\* sixteen pattern bytes of the tile is not zero; no other sprite counts.
C14_Sprite0Hit ==
    (Rendered /\ ~Sprite0Hit(Recent(1).pre.registers.status)) =>
        (Sprite0Hit(ppu.registers.status) <=>
            /\ ppu.oam[0] < 239
            /\ \E n \in 0..15 : ppu_read8(memory, Sprite0Pattern + n).value # 0)

\* a render has set SPRITE_0_HIT
C14_Witness ==
    /\ Rendered
    /\ ~Sprite0Hit(Recent(1).pre.registers.status)
    /\ Sprite0Hit(ppu.registers.status)

\* C15: every set_pixel call of a render has x in [0, 256) and y in [0, 240).
C15_SetPixelOnDisplay ==
    (Len(hist) >= 1 /\ Recent(1).op = "render") =>
        \A c \in frame :
            /\ c.x >= 0
            /\ c.x + c.width <= 256
            /\ c.y >= 0
            /\ c.y + c.height <= 240

\* the scroll is (0, 0) and the nametable bits of CONTROLLER are clear
ZeroView ==
    /\ ppu.scroll_x = 0
    /\ ppu.scroll_y = 0
    /\ ~BitSet(ppu.registers.controller, 0)
    /\ ~BitSet(ppu.registers.controller, 1)

\* the background tiles of the last render
Tiles == DOMAIN bus_log.background

\* no read of the last render other than of a nametable byte or of an
\* attribute byte is at an address of 0x2000 .. 0x23FF, no read of a
\* nametable byte is at an address of the attribute table 0x23C0 .. 0x23FF,
\* and no read of an attribute byte is at an address of 0x2000 .. 0x23BF
NoStrayRead ==
    /\ \A n \in Tiles :
           /\ bus_log.background[n].nt_address \notin 9152..9215
           /\ bus_log.background[n].at_byte_address \notin 8192..9151
           /\ bus_log.background[n].pt_address + 15 < 8192
           /\ \A p \in bus_log.background[n].palette : p.address > 9215
    /\ \A n \in DOMAIN bus_log.sprites :
           /\ bus_log.sprites[n].pt_address + 15 < 8192
           /\ \A p \in bus_log.sprites[n].palette : p.address > 9215
    /\ \A n \in DOMAIN bus_log.universal : bus_log.universal[n] > 9215

\* every address of 0x2000 .. 0x23BF is read exactly once
NametableReadOnce ==
    /\ Cardinality({n \in Tiles : bus_log.background[n].nt_address \in 8192..9151}) = 960
    /\ {bus_log.background[n].nt_address : n \in Tiles} \cap (8192..9151) = 8192..9151

\* the number of reads of the attribute byte at a
AttributeReads(a) ==
    Cardinality({n \in Tiles : bus_log.background[n].at_byte_address = a})

\* C16 as it is stated: with the scroll at (0, 0) and the nametable bits
\* clear, a render reads every address of 0x2000 .. 0x23BF exactly once and
\* every address of 0x23C0 .. 0x23FF exactly once.
C16_ReadOnce ==
    (Rendered /\ ZeroView) =>
        /\ NoStrayRead
        /\ NametableReadOnce
        /\ \A a \in 9152..9215 : AttributeReads(a) = 1

\* C16, amended: with the scroll at (0, 0) and the nametable bits clear, a
\* render reads every address of 0x2000 .. 0x23BF exactly once, and reads an
\* attribute byte once for each tile it covers: every address of
\* 0x23C0 .. 0x23F7 sixteen times and every address of 0x23F8 .. 0x23FF
\* eight times.
C16_ReadCounts ==
    (Rendered /\ ZeroView) =>
        /\ NoStrayRead
        /\ NametableReadOnce
        /\ \A a \in 9152..9207 : AttributeReads(a) = 16
        /\ \A a \in 9208..9215 : AttributeReads(a) = 8

\* a render with the scroll at (0, 0) and the nametable bits clear has read
\* the last nametable byte and the last attribute byte of the first nametable
C16_Witness ==
    /\ Rendered
    /\ ZeroView
    /\ \E n \in Tiles : bus_log.background[n].nt_address = 9151
    /\ \E n \in Tiles : bus_log.background[n].at_byte_address = 9215

\* the addresses of the first pattern byte of the tiles and of the visible
\* sprites of the last render
PatternsRead ==
    {bus_log.background[n].pt_address : n \in Tiles}
        \cup {bus_log.sprites[n].pt_address :
                  n \in {m \in DOMAIN bus_log.sprites : bus_log.sprites[m].visible}}

\* every pattern byte read by the last render is zero
BlankPatterns ==
    \A a \in PatternsRead : \A n \in 0..15 : ppu_read8(memory, a + n).value = 0

\* C17: when every pattern byte that a render reads is zero, the render
\* writes every pixel of the 256 x 240 display exactly once, with the bus
\* content at 0x3F00, and does not change SPRITE_0_HIT.
C17_BlankFrame ==
    (Rendered /\ BlankPatterns) =>
        /\ Cardinality(frame) = 1
        /\ \A c \in frame :
               /\ c.x = 0
               /\ c.y = 0
               /\ c.width = 256
               /\ c.height = 240
               /\ c.colour = ppu_read8(memory, 16128).value
        /\ Sprite0Hit(ppu.registers.status) = Sprite0Hit(Recent(1).pre.registers.status)

\* a blank frame of a colour that is not zero has been rendered
C17_Witness ==
    /\ Rendered
    /\ BlankPatterns
    /\ \E c \in frame : c.colour # 0
    /\ bus_log.sprites[1].visible

\* the place of the last call of a block
LastPlace(c) == c.at + c.width * c.height - 1

\* the call covers pixel (x, y)
Covers(c, x, y) ==
    /\ c.x <= x
    /\ x < c.x + c.width
    /\ c.y <= y
    /\ y < c.y + c.height

\* the colour of pixel (x, y) of the Frame: that of the last call that covers
\* it
FramePixel(x, y) ==
    (CHOOSE c \in frame :
        /\ Covers(c, x, y)
        /\ \A d \in frame : Covers(d, x, y) => d.at <= c.at).colour

\* the colour that the layers give pixel (x, y): that of the sprite of the
\* highest oam index among those with an opaque pixel there, else that of the
\* background tile, else that of the universal background
LayerColour(x, y) ==
    LET sprites == {c \in frame : c.layer = "sprite" /\ Covers(c, x, y)}
        tiles == {c \in frame : c.layer = "background" /\ Covers(c, x, y)}
        universal == {c \in frame : c.layer = "universal" /\ Covers(c, x, y)}
    IN  IF sprites # {}
            THEN (CHOOSE c \in sprites : \A d \in sprites : d.index <= c.index).colour
        ELSE IF tiles # {} THEN (CHOOSE c \in tiles : TRUE).colour
        ELSE (CHOOSE c \in universal : TRUE).colour

\* the pixels of the display that a tile or a sprite has written, and the
\* corners of the display
PixelsDrawn ==
    {<<c.x, c.y>> : c \in {d \in frame : /\ d.layer # "universal"
                                          /\ d.x < 256
                                          /\ d.y < 240}}
        \cup {<<0, 0>>, <<255, 0>>, <<0, 239>>, <<255, 239>>}

\* C20: in a render every call of the universal background comes before
\* every call of a background tile, which comes before every call of a
\* sprite, and the calls of a sprite come before those of a sprite of a
\* higher oam index; so the colour of a pixel is that of the sprite of the
\* highest oam index with an opaque pixel there, else that of the background
\* tile, else that of the universal background.
C20_LayerOrder ==
    Rendered =>
        /\ \A c \in frame : \A d \in frame :
               /\ (c.layer = "universal" /\ d.layer # "universal") => LastPlace(c) < d.at
               /\ (c.layer = "background" /\ d.layer = "sprite") => LastPlace(c) < d.at
               /\ (c.layer = "sprite" /\ d.layer = "sprite" /\ c.index < d.index) =>
                      LastPlace(c) < d.at
        /\ \A p \in PixelsDrawn : FramePixel(p[1], p[2]) = LayerColour(p[1], p[2])

\* pixel (0, 0) has been written by the universal background, by a
\* background tile, by sprite 0 and by sprite 1, in four colours
C20_Witness ==
    /\ Rendered
    /\ \E u \in frame, b \in frame, s0 \in frame, s1 \in frame :
           /\ u.layer = "universal"
           /\ b.layer = "background" /\ Covers(b, 0, 0)
           /\ s0.layer = "sprite" /\ s0.index = 0 /\ Covers(s0, 0, 0)
           /\ s1.layer = "sprite" /\ s1.index = 1 /\ Covers(s1, 0, 0)
           /\ Cardinality({u.colour, b.colour, s0.colour, s1.colour}) = 4
           /\ FramePixel(0, 0) = s1.colour

\* C21: SPRITE_0_HIT, once set by render, stays set across STATUS reads,
\* register writes, vblank_start and vblank_end (across every operation but
\* render_end); render_end clears that bit, and it changes no other bit of
\* STATUS, no other field of the Ppu and nothing on the bus.
C21_Sprite0HitLifecycle ==
    [][/\ (Sprite0Hit(ppu.registers.status) /\ Performed.op # "render_end") =>
              Sprite0Hit(ppu'.registers.status)
       /\ (Performed.op = "render_end") =>
              /\ ~Sprite0Hit(ppu'.registers.status)
              /\ \A n \in (0..7) \ {6} :
                     BitSet(ppu'.registers.status, n) = BitSet(ppu.registers.status, n)
              /\ [ppu' EXCEPT !.registers.status = 0] = [ppu EXCEPT !.registers.status = 0]
              /\ memory' = memory]_vars

\* a render has set SPRITE_0_HIT, a vblank_start has left it set, and a
\* render_end has cleared it and left VBLANK set
C21_Witness ==
    /\ Len(hist) >= 3
    /\ Recent(3).op = "render"
    /\ Sprite0Hit(Recent(3).post.registers.status)
    /\ Recent(2).op = "vblank_start"
    /\ Sprite0Hit(Recent(2).post.registers.status)
    /\ Recent(1).op = "render_end"
    /\ ~Sprite0Hit(ppu.registers.status)
    /\ BitSet(ppu.registers.status, 7)

\* the operation a step has just performed is a DATA read that the bus
\* refuses
FailingDataRead ==
    /\ IsRead(Performed, DATA)
    /\ ~IsOk(ppu_read8(memory, ppu.address))

\* the operation a step has just performed is a DATA write that the bus
\* refuses
FailingDataWrite ==
    /\ IsWrite(Performed, DATA)
    /\ ~IsOk(ppu_write8(memory, ppu.address, Performed.data).result)

\* the step ends a retry: a DATA read that failed, the two ADDRESS writes of
\* a pair, and a DATA read that succeeds
RetriedDataRead ==
    /\ Len(hist') >= 4
    /\ IsRead(hist'[Len(hist') - 3], DATA)
    /\ ~IsOk(hist'[Len(hist') - 3].result)
    /\ IsWrite(hist'[Len(hist') - 2], ADDRESS)
    /\ IsWrite(hist'[Len(hist') - 1], ADDRESS)
    /\ IsRead(Performed, DATA)
    /\ IsOk(Performed.result)

\* C22: when the bus refuses the access of a DATA read or of a DATA write,
\* the cpu access returns the error of the bus, vram_address is not
\* incremented and the bus content is unchanged; a DATA read that fails
\* leaves data_latch as it was, so the DATA read retried after an ADDRESS
\* pair returns the latch that the failed read found.
C22_BusErrorPropagates ==
    [][/\ FailingDataRead =>
              /\ Performed.result = ppu_read8(memory, ppu.address)
              /\ Performed.result.kind = "BusErrorRead"
              /\ ppu'.address = ppu.address
              /\ ppu'.data_latch = ppu.data_latch
              /\ memory' = memory
       /\ FailingDataWrite =>
              /\ Performed.result = ppu_write8(memory, ppu.address, Performed.data).result
              /\ Performed.result.kind = "BusErrorWrite"
              /\ ppu'.address = ppu.address
              /\ memory' = memory
       /\ RetriedDataRead =>
              Performed.result.value = hist'[Len(hist') - 3].pre.data_latch]_vars

\* a DATA read has filled the latch with a byte that is not zero, an ADDRESS
\* pair has set an unmapped vram_address, and a DATA read and a DATA write
\* have failed there, the latch and vram_address being as they were
C22_Witness ==
    /\ Len(hist) >= 2
    /\ IsRead(Recent(2), DATA)
    /\ Recent(2).result.kind = "BusErrorRead"
    /\ Recent(2).pre.data_latch # 0
    /\ IsWrite(Recent(1), DATA)
    /\ Recent(1).result.kind = "BusErrorWrite"
    /\ ppu.data_latch = Recent(2).pre.data_latch
    /\ ppu.address = Recent(2).pre.address
    /\ ~Mapped(ppu.address)

\* the sprites of the last render that were visible
SpritesDrawn == {n \in DOMAIN bus_log.sprites : bus_log.sprites[n].visible}

\* C23: every address that a render presents to the bus is mapped and within
\* 16 bits: the nametable and attribute reads are in 0x2000 .. 0x2FFF, the
\* sixteen pattern reads of a tile or of a sprite in 0x0000 .. 0x1FFF, the
\* background palette reads (that of the universal background among them) in
\* 0x3F00 .. 0x3F0F and the sprite palette reads in 0x3F10 .. 0x3F1F; the
\* render does not end with a bus error.
C23_RenderAddresses ==
    (Len(hist) >= 1 /\ Recent(1).op = "render") =>
        /\ Recent(1).result.kind = "Ok"
        /\ \A n \in DOMAIN bus_log.universal : bus_log.universal[n] \in 16128..16143
        /\ \A n \in Tiles :
               /\ bus_log.background[n].nt_address \in 8192..12287
               /\ bus_log.background[n].at_byte_address \in 8192..12287
               /\ bus_log.background[n].pt_address \in 0..8191
               /\ bus_log.background[n].pt_address + 15 \in 0..8191
               /\ \A p \in bus_log.background[n].palette : p.address \in 16128..16143
        /\ \A n \in SpritesDrawn :
               /\ bus_log.sprites[n].pt_address \in 0..8191
               /\ bus_log.sprites[n].pt_address + 15 \in 0..8191
               /\ \A p \in bus_log.sprites[n].palette : p.address \in 16144..16159

\* a render has read the last nametable byte and the last attribute byte of
\* the last nametable, the last byte of the pattern tables for a tile and for
\* a sprite, and the last entry of the background palette and of the sprite
\* palette
C23_Witness ==
    /\ Rendered
    /\ \E n \in Tiles :
           /\ bus_log.background[n].nt_address = 12223
           /\ bus_log.background[n].at_byte_address = 12287
           /\ bus_log.background[n].pt_address + 15 = 8191
           /\ \E p \in bus_log.background[n].palette : p.address = 16143
    /\ \E n \in Tiles : bus_log.background[n].nt_address = 8192
    /\ bus_log.sprites[64].visible
    /\ bus_log.sprites[64].pt_address + 15 = 8191
    /\ \E p \in bus_log.sprites[64].palette : p.address = 16159

====
